---- MODULE Spec2Model ----
(***************************************************************************)
(* Booking-conflict and payment-reconciliation engine of the hospital      *)
(* front-desk backend.  The data store is the external Supabase/PostgREST  *)
(* service: every .execute() of the source is one atomic store call, and   *)
(* a request handler is a sequence of such calls run by a worker.  The     *)
(* source declares no table constraint, so an insert never fails on a      *)
(* duplicate.  The handlers whose interleavings the properties are about   *)
(* (booking, create-order, the webhook) take one step per store call; the  *)
(* status endpoints, which read one row by id and then write it, take one  *)
(* step.  Each request is handled once, by its own worker.                 *)
(***************************************************************************)
EXTENDS Integers, Sequences, FiniteSets, TLC

\* ---------------------------------------------------------------- bounds
\* requests that arrive in one run; each is handled by one worker
NRequests == 4
NDeliveries == 2
\* seconds the wall clock advances in one run
MaxClock == 1

Requests == 1..NRequests

\* ------------------------------------------------------------ input sets
\* users.id of the requesters; 5 is also the id of the doctor row
Patients == {1, 2}
UserIds == {1, 2, 5}
\* doctor 5 works at hospital 10 (approved), doctor 6 at hospital 11 (pending),
\* doctor 8 at hospital 12 (ACTIVE, the status DoctorService asks of a hospital)
DoctorIds == {5, 6, 8}
DoctorInputs == {5, 6, 7, 8}
Today == 1
DateInputs == {0, 2}
TimeSlotInputs == {"10:00", "08:00"}
Roles == {"patient", "admin"}
Amounts == {500}

VARIABLES
    appointments,      \* table appointments: row id = index
    operations,        \* table operations
    hospitals,         \* table hospitals: id -> row
    payments,          \* table payments
    payment_webhooks,  \* table payment_webhooks
    gw_orders,         \* the gateway: number of orders it has created
    gw_payments,       \* the gateway: its payment records, id = index
    gw_transfers,      \* the gateway: the transfers it was asked to make
    config,            \* deployment settings (environment variables)
    now,               \* int(time.time())
    pc,                \* per request: the store call its handler makes next
    req,               \* per request: the handler's local variables
    resp               \* per request: the response returned

stores == <<appointments, operations, hospitals, payments, payment_webhooks>>
gateway == <<gw_orders, gw_payments, gw_transfers>>
vars == <<appointments, operations, hospitals, payments, payment_webhooks,
          gw_orders, gw_payments, gw_transfers, config, now, pc, req, resp>>

NoOrder == <<>>
NoKey == <<>>
NoSig == <<>>

NoReq ==
    [user_id |-> 0, doctor_id |-> 0, hospital_id |-> 0, date |-> 0, time_slot |-> "",
     appointment_id |-> 0, operation_id |-> 0, amount |-> 0, key |-> NoKey,
     webhook_id |-> <<>>, event_type |-> "", gw_payment_id |-> 0, order_id |-> NoOrder,
     sig |-> NoSig, payment_id |-> 0, error |-> "", email |-> "",
     patient_mobile |-> "", time |-> <<>>]

\* ------------------------------------------------------------- helpers
Reply(r, x) == resp' = [resp EXCEPT ![r] = x]

\* requests are numbered in their order of arrival
Arrives(r) ==
    /\ pc[r] = "idle"
    /\ IF r = 1 THEN TRUE ELSE pc[r - 1] # "idle"

Goto(r, l) == pc' = [pc EXCEPT ![r] = l]

\* the handler returns x
Return(r, x) ==
    /\ pc' = [pc EXCEPT ![r] = "done"]
    /\ req' = [req EXCEPT ![r] = NoReq]
    /\ Reply(r, x)

\* data[0] of a select that has no ORDER BY: any of the matching rows, 0 when none
First(S) == IF S = {} THEN {0} ELSE S

valid_slots ==
    {"09:30", "10:00", "10:30", "11:00", "11:30", "12:00",
     "12:30", "13:00", "13:30", "14:00", "14:30", "15:00", "15:30",
     "18:00", "18:30", "19:00", "19:30", "20:00", "20:30"}

is_valid_time_slot(time_slot) == time_slot \in valid_slots

DoctorHospital(d) == IF d = 5 THEN 10 ELSE IF d = 8 THEN 12 ELSE 11

\* select * from appointments where doctor_id, date, time_slot match and status <> cancelled
ExistingAppointments(d, date, slot) ==
    {i \in DOMAIN appointments :
        /\ appointments[i].doctor_id = d
        /\ appointments[i].date = date
        /\ appointments[i].time_slot = slot
        /\ appointments[i].status # "cancelled"}

\* checks that leave the time slot unexamined
BookingPrecheck_any_slot(d, date, slot, approved) ==
    IF date < Today THEN "400 past date"
    ELSE IF d \notin DoctorIds THEN "404 Doctor not found"
    ELSE IF hospitals[DoctorHospital(d)].status \notin approved THEN "400 hospital not approved"
    ELSE "ok"

\* The checks made before the slot lookup; "ok" when all pass.
BookingPrecheck(d, date, slot, approved) ==
    IF ~is_valid_time_slot(slot) THEN "400 Invalid time slot"
    ELSE IF date < Today THEN "400 past date"
    ELSE IF d \notin DoctorIds THEN "404 Doctor not found"
    ELSE IF hospitals[DoctorHospital(d)].status \notin approved THEN "400 hospital not approved"
    ELSE "ok"

NewAppointment(q) ==
    [user_id |-> q.user_id, doctor_id |-> q.doctor_id, hospital_id |-> q.hospital_id,
     date |-> q.date, time_slot |-> q.time_slot, status |-> "pending"]

NewOperation(u, d, date) ==
    [patient_id |-> u, doctor_id |-> d, hospital_id |-> DoctorHospital(d),
     operation_date |-> date, status |-> "pending"]

SetAppointmentStatus(a, s) ==
    appointments' = [appointments EXCEPT ![a].status = s]

SetOperationStatus(o, s) ==
    operations' = [operations EXCEPT ![o].status = s]

\* -------------------------------------------------- appointments router
\* book_appointment up to and including the SELECT of existing bookings
book_appointment_check(r, u, d, date, slot) ==
    /\ Arrives(r)
    /\ LET pre == BookingPrecheck(d, date, slot, {"approved"}) IN
        IF pre # "ok" THEN Return(r, pre)
        ELSE IF ExistingAppointments(d, date, slot) # {} THEN
            Return(r, "400 Time slot already booked")
        ELSE
            /\ Goto(r, "book_insert")
            /\ req' = [req EXCEPT ![r] = [NoReq EXCEPT !.user_id = u, !.doctor_id = d,
                            !.hospital_id = DoctorHospital(d), !.date = date, !.time_slot = slot]]
            /\ UNCHANGED resp
    /\ UNCHANGED <<stores, gateway, config, now>>

\* book_appointment: the INSERT and the response
book_appointment_insert(r) ==
    /\ pc[r] = "book_insert"
    /\ appointments' = Append(appointments, NewAppointment(req[r]))
    /\ Return(r, "200 booked")
    /\ UNCHANGED <<operations, hospitals, payments, payment_webhooks, gateway, config, now>>

\* get_available_slots: the list the handler filters
all_slots ==
    {"09:30", "10:00", "10:30", "11:00", "11:30", "12:00",
     "12:30", "13:00", "13:30", "14:00", "14:30", "15:00", "15:30",
     "18:00", "18:30", "19:00", "19:30", "20:00", "20:30"}

\* a list of booked slots that counts the cancelled appointments too
booked_slots_with_cancelled(doctor_id, date) ==
    {appointments[i].time_slot : i \in {j \in DOMAIN appointments :
        /\ appointments[j].doctor_id = doctor_id
        /\ appointments[j].date = date}}

\* select time_slot from appointments where doctor_id, date match and status <> cancelled
booked_slots(doctor_id, date) ==
    {appointments[i].time_slot : i \in {j \in DOMAIN appointments :
        /\ appointments[j].doctor_id = doctor_id
        /\ appointments[j].date = date
        /\ appointments[j].status # "cancelled"}}

available_slots(doctor_id, date) ==
    {slot \in all_slots : slot \notin booked_slots(doctor_id, date)}

\* get_available_slots, of the router and of AppointmentService: the SELECT of
\* the doctor
get_available_slots_doctor(r, doctor_id, date) ==
    /\ Arrives(r)
    /\ IF doctor_id \notin DoctorIds THEN Return(r, "404 Doctor not found")
       ELSE /\ Goto(r, "slots_select")
            /\ req' = [req EXCEPT ![r] = [NoReq EXCEPT !.doctor_id = doctor_id, !.date = date]]
            /\ UNCHANGED resp
    /\ UNCHANGED <<stores, gateway, config, now>>

\* get_available_slots: the SELECT of the booked appointments and the response
get_available_slots_select(r) ==
    /\ pc[r] = "slots_select"
    /\ Return(r, <<"200 slots", available_slots(req[r].doctor_id, req[r].date),
                   booked_slots(req[r].doctor_id, req[r].date)>>)
    /\ UNCHANGED <<stores, gateway, config, now>>

confirm_appointment(r, a, d) ==
    /\ Arrives(r)
    /\ a \in DOMAIN appointments
    /\ appointments[a].doctor_id = d
    /\ SetAppointmentStatus(a, "confirmed")
    /\ Return(r, "200")
    /\ UNCHANGED <<operations, hospitals, payments, payment_webhooks, gateway, config, now>>

cancel_appointment(r, a, u) ==
    /\ Arrives(r)
    /\ a \in DOMAIN appointments
    /\ ~(appointments[a].user_id # u /\ appointments[a].doctor_id # u)
    /\ SetAppointmentStatus(a, "cancelled")
    /\ Return(r, "200")
    /\ UNCHANGED <<operations, hospitals, payments, payment_webhooks, gateway, config, now>>

mark_appointment_visited(r, a, d) ==
    /\ Arrives(r)
    /\ a \in DOMAIN appointments
    /\ appointments[a].doctor_id = d
    /\ SetAppointmentStatus(a, "completed")
    /\ Return(r, "200")
    /\ UNCHANGED <<operations, hospitals, payments, payment_webhooks, gateway, config, now>>

\* ------------------------------------------------- AppointmentService
process_booking_check(r, u, d, date, slot) ==
    /\ Arrives(r)
    /\ LET pre == BookingPrecheck(d, date, slot, {"approved", "ACTIVE"}) IN
        IF pre # "ok" THEN Return(r, pre)
        ELSE IF ExistingAppointments(d, date, slot) # {} THEN
            Return(r, "400 Time slot already booked")
        ELSE
            /\ Goto(r, "pb_insert")
            /\ req' = [req EXCEPT ![r] = [NoReq EXCEPT !.user_id = u, !.doctor_id = d,
                            !.hospital_id = DoctorHospital(d), !.date = date, !.time_slot = slot]]
            /\ UNCHANGED resp
    /\ UNCHANGED <<stores, gateway, config, now>>

process_booking_insert(r) ==
    /\ pc[r] = "pb_insert"
    /\ appointments' = Append(appointments, NewAppointment(req[r]))
    /\ Return(r, "200 booked")
    /\ UNCHANGED <<operations, hospitals, payments, payment_webhooks, gateway, config, now>>

\* AppointmentService.update_status(appointment_id, user_id, user_role, action)
AppointmentService_update_status(r, a, u, role, action) ==
    /\ Arrives(r)
    /\ a \in DOMAIN appointments
    /\ \/ /\ action = "cancel"
          /\ ~(appointments[a].user_id # u /\ appointments[a].doctor_id # u /\ role # "admin")
          /\ SetAppointmentStatus(a, "cancelled")
       \/ /\ action = "confirm"
          /\ ~(appointments[a].doctor_id # u /\ role # "admin")
          /\ SetAppointmentStatus(a, "confirmed")
       \/ /\ action = "mark_visited"
          /\ ~(appointments[a].doctor_id # u /\ role # "admin")
          /\ SetAppointmentStatus(a, "completed")
    /\ Return(r, "200")
    /\ UNCHANGED <<operations, hospitals, payments, payment_webhooks, gateway, config, now>>

\* ---------------------------------------------------- operations router
\* book_operation: no lookup of existing operations is made before the INSERT
book_operation(r, u, d, date) ==
    /\ Arrives(r)
    /\ LET pre == BookingPrecheck(d, date, "10:00", {"approved"}) IN
        IF pre # "ok" THEN
            /\ Return(r, pre)
            /\ UNCHANGED operations
        ELSE
            /\ operations' = Append(operations, NewOperation(u, d, date))
            /\ Return(r, "200 booked")
    /\ UNCHANGED <<appointments, hospitals, payments, payment_webhooks, gateway, config, now>>

confirm_operation(r, o, d) ==
    /\ Arrives(r)
    /\ o \in DOMAIN operations
    /\ operations[o].doctor_id = d
    /\ SetOperationStatus(o, "confirmed")
    /\ Return(r, "200")
    /\ UNCHANGED <<appointments, hospitals, payments, payment_webhooks, gateway, config, now>>

cancel_operation(r, o, u) ==
    /\ Arrives(r)
    /\ o \in DOMAIN operations
    /\ ~(operations[o].patient_id # u /\ operations[o].doctor_id # u)
    /\ SetOperationStatus(o, "cancelled")
    /\ Return(r, "200")
    /\ UNCHANGED <<appointments, hospitals, payments, payment_webhooks, gateway, config, now>>

\* --------------------------------------------------- OperationService
OperationService_process_booking(r, u, d, date) ==
    /\ Arrives(r)
    /\ LET pre == BookingPrecheck(d, date, "10:00", {"approved"}) IN
        IF pre # "ok" THEN
            /\ Return(r, pre)
            /\ UNCHANGED operations
        ELSE
            /\ operations' = Append(operations, NewOperation(u, d, date))
            /\ Return(r, "200 booked")
    /\ UNCHANGED <<appointments, hospitals, payments, payment_webhooks, gateway, config, now>>

OperationService_update_status(r, o, u, action) ==
    /\ Arrives(r)
    /\ o \in DOMAIN operations
    /\ \/ /\ action = "cancel"
          /\ ~(operations[o].patient_id # u /\ operations[o].doctor_id # u)
          /\ SetOperationStatus(o, "cancelled")
       \/ /\ action = "confirm"
          /\ operations[o].doctor_id = u
          /\ SetOperationStatus(o, "confirmed")
    /\ Return(r, "200")
    /\ UNCHANGED <<appointments, hospitals, payments, payment_webhooks, gateway, config, now>>

\* the status-changing endpoints and service calls on existing bookings
Lifecycle(r) ==
    \/ \E a \in DOMAIN appointments, u \in UserIds :
          \/ confirm_appointment(r, a, u)
          \/ cancel_appointment(r, a, u)
          \/ mark_appointment_visited(r, a, u)
          \/ \E role \in Roles, action \in {"cancel", "confirm", "mark_visited"} :
                AppointmentService_update_status(r, a, u, role, action)
    \/ \E o \in DOMAIN operations, u \in UserIds :
          \/ confirm_operation(r, o, u)
          \/ cancel_operation(r, o, u)
          \/ \E action \in {"cancel", "confirm"} :
                OperationService_update_status(r, o, u, action)

\* ------------------------------------------------------ payment gateway
\* ids of gateway orders: those Razorpay assigns, and those of the UPI fallback
RazorpayOrder(n) == <<"order", n>>

\* PaymentGateway._create_upi_order: order_id = f"UPI_{int(datetime.now().timestamp())}"
_create_upi_order(t) == <<"UPI", t>>

\* PaymentGateway.create_order: the id of the order it returns; gw_ok is whether
\* the POST to Razorpay answered 200/201
create_order(gw_ok) ==
    IF ~config.keys THEN _create_upi_order(now)
    ELSE IF gw_ok THEN RazorpayOrder(gw_orders + 1)
    ELSE _create_upi_order(now)

\* whether create_order made Razorpay create an order
OrderCreated(gw_ok) == config.keys /\ gw_ok

\* hmac.new(secret, payload, sha256).hexdigest(): a value that determines both
HMAC(secret, payload) == <<secret, payload>>

\* a verification that checks the secret a signature was made with, not the payload
verify_webhook_signature_unbound(payload, signature) ==
    /\ config.webhook_secret # ""
    /\ Len(signature) = 2
    /\ signature[1] = config.webhook_secret

\* PaymentGateway.verify_webhook_signature(payload, signature)
verify_webhook_signature(payload, signature) ==
    IF config.webhook_secret = "" THEN FALSE
    ELSE HMAC(config.webhook_secret, payload) = signature

\* RazorpayGateway.verify_webhook_signature: hmac.compare_digest raises TypeError
\* when the header is absent or is no ASCII text (a signature shorter than a
\* digest stands for both)
RazorpayGateway_verify_webhook_signature(raw_body, signature) ==
    IF config.webhook_secret = "" THEN "False"
    ELSE IF Len(signature) < 2 THEN "TypeError"
    ELSE IF HMAC(config.webhook_secret, raw_body) = signature THEN "True"
    ELSE "False"

\* CashfreeGateway.verify_webhook_signature: the message is timestamp + rawBody
CashfreeGateway_verify_webhook_signature(raw_body, signature, timestamp) ==
    IF config.webhook_secret = "" THEN "False"
    ELSE IF Len(signature) < 2 THEN "TypeError"
    ELSE IF HMAC(config.webhook_secret, raw_body) \o <<timestamp>> = signature THEN "True"
    ELSE "False"

\* one call of a gateway's signature verification; impl is the implementation
verify_call(r, impl, raw_body, signature, timestamp) ==
    /\ Arrives(r)
    /\ Return(r, IF impl = "cashfree"
                 THEN CashfreeGateway_verify_webhook_signature(raw_body, signature, timestamp)
                 ELSE IF impl = "razorpay"
                 THEN RazorpayGateway_verify_webhook_signature(raw_body, signature)
                 ELSE IF verify_webhook_signature(raw_body, signature) THEN "True"
                 ELSE "False")
    /\ UNCHANGED <<stores, gateway, config, now>>

\* PaymentGateway.get_payment_details: 0 stands for None; up is whether the GET answered 200
get_payment_details(payment_id, up) ==
    IF ~config.keys THEN 0
    ELSE IF up /\ payment_id \in DOMAIN gw_payments THEN payment_id
    ELSE 0

\* ------------------------------------------------------ RazorpayService
\* generate_idempotency_key: f"{user_id}_{reference_id}_{timestamp}_{md5(...)[:8]}";
\* the hash is computed from the three other parts
generate_idempotency_key(user_id, appointment_id, operation_id) ==
    LET reference_id == IF appointment_id # 0 THEN appointment_id ELSE operation_id
    IN  <<user_id, reference_id, now>>

WebhookRows(webhook_id) ==
    {i \in DOMAIN payment_webhooks : payment_webhooks[i].webhook_id = webhook_id}

\* a dedup check that never finds the event
check_webhook_idempotency_never(first) == FALSE

\* check_webhook_idempotency: the processed flag of data[0] (row first), False when no row
check_webhook_idempotency(first) ==
    IF first = 0 THEN FALSE ELSE payment_webhooks[first].processed

\* save_webhook_event: the INSERT
save_webhook_event(webhook_id, event_type) ==
    payment_webhooks' = Append(payment_webhooks,
        [webhook_id |-> webhook_id, event_type |-> event_type, payment_id |-> 0,
         processed |-> FALSE, processing_error |-> ""])

\* a marking that skips the events that ended in an error
mark_webhook_processed_on_success(webhook_id, payment_id, error) ==
    payment_webhooks' =
        [i \in DOMAIN payment_webhooks |->
            IF payment_webhooks[i].webhook_id = webhook_id /\ error = ""
            THEN [payment_webhooks[i] EXCEPT !.processed = TRUE]
            ELSE payment_webhooks[i]]

\* mark_webhook_processed: UPDATE ... WHERE webhook_id = :webhook_id
mark_webhook_processed(webhook_id, payment_id, error) ==
    payment_webhooks' =
        [i \in DOMAIN payment_webhooks |->
            IF payment_webhooks[i].webhook_id = webhook_id
            THEN [payment_webhooks[i] EXCEPT
                    !.processed = TRUE,
                    !.payment_id = IF payment_id # 0 THEN payment_id ELSE @,
                    !.processing_error = IF error # "" THEN error ELSE @]
            ELSE payment_webhooks[i]]

\* ------------------------------------------------------ payments router
PaymentsByKey(key) ==
    {i \in DOMAIN payments : payments[i].internal_transaction_id = key}

PaymentsByOrder(order_id) ==
    {i \in DOMAIN payments : payments[i].razorpay_order_id = order_id}

NewPayment(user_id, appointment_id, operation_id, amount, order_id, key) ==
    [user_id |-> user_id, appointment_id |-> appointment_id, operation_id |-> operation_id,
     amount |-> amount, status |-> "PENDING", razorpay_order_id |-> order_id,
     internal_transaction_id |-> key, razorpay_payment_id |-> 0,
     hospital_id |-> 0, metadata_type |-> "",
     created_at |-> now, updated_at |-> now]

\* The validation of create_razorpay_order; "ok" when the request passes.
OrderPrecheck(u, appointment_id, operation_id, amount) ==
    IF appointment_id = 0 /\ operation_id = 0 THEN "400 booking required"
    ELSE IF amount <= 0 THEN "400 Amount must be greater than 0"
    ELSE IF appointment_id # 0 THEN
        IF appointment_id \notin DOMAIN appointments THEN "404 Appointment not found"
        ELSE IF appointments[appointment_id].user_id # u THEN "403 Not authorized"
        ELSE "ok"
    ELSE
        IF operation_id \notin DOMAIN operations THEN "404 Operation not found"
        ELSE IF operations[operation_id].patient_id # u THEN "403 Not authorized"
        ELSE "ok"

\* create_razorpay_order up to and including the SELECT by internal_transaction_id
create_razorpay_order_lookup(r, u, appointment_id, operation_id, amount) ==
    /\ Arrives(r)
    /\ LET pre == OrderPrecheck(u, appointment_id, operation_id, amount)
           key == generate_idempotency_key(u, appointment_id, operation_id)
       IN  IF pre # "ok" THEN Return(r, pre)
           ELSE \E first \in First(PaymentsByKey(key)) :
                IF first # 0 /\ payments[first].razorpay_order_id # NoOrder
                THEN Return(r, <<"200 existing", first, payments[first].razorpay_order_id>>)
                ELSE /\ Goto(r, "order_insert")
                     /\ req' = [req EXCEPT ![r] = [NoReq EXCEPT !.user_id = u,
                                    !.appointment_id = appointment_id,
                                    !.operation_id = operation_id,
                                    !.amount = amount, !.key = key]]
                     /\ UNCHANGED resp
    /\ UNCHANGED <<stores, gateway, config, now>>

\* create_razorpay_order: the gateway call, the INSERT and the response
create_razorpay_order_insert(r, gw_ok) ==
    /\ pc[r] = "order_insert"
    /\ LET q == req[r]
           order_id == create_order(gw_ok)
       IN  /\ gw_orders' = IF OrderCreated(gw_ok) THEN gw_orders + 1 ELSE gw_orders
           /\ payments' = Append(payments,
                [NewPayment(q.user_id, q.appointment_id, q.operation_id, q.amount, order_id,
                            q.key)
                    EXCEPT !.hospital_id = IF q.appointment_id # 0
                                           THEN appointments[q.appointment_id].hospital_id
                                           ELSE operations[q.operation_id].hospital_id])
           /\ Return(r, <<"200 created", Len(payments) + 1, order_id>>)
    /\ UNCHANGED <<appointments, operations, hospitals, payment_webhooks, gw_payments,
                   gw_transfers, config, now>>

\* the UPDATE of the booking a payment references (appointment first, else operation)
ConfirmBooking(p) ==
    IF p.appointment_id # 0 THEN
        /\ appointments' = [i \in DOMAIN appointments |->
                IF i = p.appointment_id THEN [appointments[i] EXCEPT !.status = "confirmed"]
                ELSE appointments[i]]
        /\ UNCHANGED operations
    ELSE IF p.operation_id # 0 THEN
        /\ operations' = [i \in DOMAIN operations |->
                IF i = p.operation_id THEN [operations[i] EXCEPT !.status = "confirmed"]
                ELSE operations[i]]
        /\ UNCHANGED appointments
    ELSE UNCHANGED <<appointments, operations>>

\* complete_payment: open to every authenticated user; current_user u is read
\* by no check
complete_payment(r, u, payment_id) ==
    /\ Arrives(r)
    /\ payment_id \in DOMAIN payments
    /\ payments' = [payments EXCEPT ![payment_id].status = "COMPLETED",
                                    ![payment_id].updated_at = now]
    /\ ConfirmBooking(payments[payment_id])
    /\ Return(r, "200")
    /\ UNCHANGED <<hospitals, payment_webhooks, gateway, config, now>>

NewStatus(razorpay_status) ==
    IF razorpay_status = "captured" THEN "COMPLETED"
    ELSE IF razorpay_status = "failed" THEN "FAILED"
    ELSE IF razorpay_status = "authorized" THEN "PENDING"
    ELSE ""

\* verify_payment_manually (any doctor)
verify_payment_manually(r, payment_id, up) ==
    /\ Arrives(r)
    /\ payment_id \in DOMAIN payments
    /\ LET p == payments[payment_id]
           razorpay_payment == get_payment_details(p.razorpay_payment_id, up)
       IN  IF p.razorpay_payment_id = 0 THEN
                /\ Return(r, "400 no Razorpay payment ID")
                /\ UNCHANGED payments
           ELSE IF razorpay_payment = 0 THEN
                /\ Return(r, "404 Payment not found in Razorpay")
                /\ UNCHANGED payments
           ELSE LET new_status == NewStatus(gw_payments[razorpay_payment].status) IN
                /\ payments' = IF new_status # ""
                      THEN [payments EXCEPT ![payment_id].status = new_status,
                                            ![payment_id].updated_at = now]
                      ELSE payments
                /\ Return(r, "200 verified")
    /\ UNCHANGED <<appointments, operations, hospitals, payment_webhooks, gateway, config, now>>

\* ---- razorpay_webhook
\* the event the gateway emits for its payment k
EventType(k) ==
    IF gw_payments[k].status = "captured" THEN "payment.captured"
    ELSE IF gw_payments[k].status = "failed" THEN "payment.failed"
    ELSE "payment.authorized"

\* a request body: the event's fields, and whether the text is in the form
\* json.dumps(..., separators=(',', ':')) writes
Body(webhook_id, event, k, order_id, compact) ==
    [id |-> webhook_id, event |-> event, payment_id |-> k, order_id |-> order_id,
     compact |-> compact]

GenuineBody(k, compact) ==
    Body(<<"evt", k>>, EventType(k), k, gw_payments[k].order_id, compact)

GenuineBodies == {GenuineBody(k, compact) : k \in DOMAIN gw_payments, compact \in BOOLEAN}

\* json.dumps(json.loads(body_str), separators=(',', ':'))
Reserialize(body) == [body EXCEPT !.compact = TRUE]

\* RazorpayService.process_webhook_event: "ok" for success, else the error
process_webhook_event(webhook_payload, signature) ==
    IF ~verify_webhook_signature(Reserialize(webhook_payload), signature)
    THEN "Invalid webhook signature"
    ELSE IF webhook_payload.id = <<>> THEN "No webhook ID"
    ELSE "ok"

\* a genuine body changed in transit: the event renamed to a capture
TamperedBodies == {[b EXCEPT !.event = "payment.captured"] : b \in GenuineBodies} \ GenuineBodies

\* the signature headers a sender can present: none, those of the genuine
\* deliveries, one computed without the secret
Signatures(body) ==
    {NoSig} \cup {HMAC(config.webhook_secret, b) : b \in GenuineBodies} \cup {HMAC("guess", body)}

\* razorpay_webhook up to and including the SELECT of check_webhook_idempotency
razorpay_webhook_receive(r, body, x_razorpay_signature) ==
    /\ Arrives(r)
    /\ IF x_razorpay_signature = NoSig THEN Return(r, "error Missing signature")
       ELSE IF ~verify_webhook_signature(body, x_razorpay_signature)
            THEN Return(r, "error Invalid signature")
       ELSE IF process_webhook_event(body, x_razorpay_signature) # "ok"
            THEN Return(r, "error " \o process_webhook_event(body, x_razorpay_signature))
       ELSE \E first \in First(WebhookRows(body.id)) :
            IF check_webhook_idempotency(first)
            THEN Return(r, "success Already processed")
            ELSE /\ Goto(r, "wh_save")
                 /\ req' = [req EXCEPT ![r] = [NoReq EXCEPT !.webhook_id = body.id,
                                !.event_type = body.event, !.gw_payment_id = body.payment_id,
                                !.order_id = body.order_id, !.sig = x_razorpay_signature]]
                 /\ UNCHANGED resp
    /\ UNCHANGED <<stores, gateway, config, now>>

razorpay_webhook_save(r) ==
    /\ pc[r] = "wh_save"
    /\ save_webhook_event(req[r].webhook_id, req[r].event_type)
    /\ Goto(r, "wh_find")
    /\ UNCHANGED <<appointments, operations, hospitals, payments, gateway, config, now, req, resp>>

\* a cross-check that compares the order id alone
verification_mismatch_order_only(razorpay_payment, razorpay_order_id, payment) ==
    razorpay_payment.order_id # razorpay_order_id

\* the cross-check of razorpay_webhook: the gateway's record against the
\* webhook's order id and the stored amount (gateway amounts are in paise)
verification_mismatch(razorpay_payment, razorpay_order_id, payment) ==
    \/ razorpay_payment.order_id # razorpay_order_id
    \/ razorpay_payment.amount # payment.amount * 100

\* the SELECT of the payment by order id, the gateway lookup and the cross-check
razorpay_webhook_find(r, up) ==
    /\ pc[r] = "wh_find"
    /\ \E first \in First(PaymentsByOrder(req[r].order_id)) :
        LET razorpay_payment == get_payment_details(req[r].gw_payment_id, up) IN
        IF first = 0 THEN
            /\ req' = [req EXCEPT ![r].error = "Payment not found"]
            /\ Goto(r, "wh_mark")
        ELSE IF razorpay_payment = 0 THEN
            /\ req' = [req EXCEPT ![r].payment_id = first,
                                  ![r].error = "Payment verification failed"]
            /\ Goto(r, "wh_mark")
        ELSE IF verification_mismatch(gw_payments[razorpay_payment], req[r].order_id,
                                      payments[first]) THEN
            /\ req' = [req EXCEPT ![r].payment_id = first,
                                  ![r].error = "Payment verification mismatch"]
            /\ Goto(r, "wh_mark")
        ELSE IF req[r].event_type \in {"payment.captured", "payment.failed"} THEN
            /\ req' = [req EXCEPT ![r].payment_id = first]
            /\ Goto(r, "wh_update")
        ELSE
            /\ pc' = [pc EXCEPT ![r] = "done"]
            /\ req' = [req EXCEPT ![r] = NoReq]
    /\ resp' = IF pc'[r] = "done" THEN [resp EXCEPT ![r] = "success Webhook processed"] ELSE resp
    /\ UNCHANGED <<stores, gateway, config, now>>

\* an update that goes on to the booking cascade for a failure as for a capture
razorpay_webhook_update_cascading(r) ==
    /\ pc[r] = "wh_update"
    /\ payments' = [payments EXCEPT
            ![req[r].payment_id].status =
                IF req[r].event_type = "payment.captured" THEN "COMPLETED" ELSE "FAILED",
            ![req[r].payment_id].razorpay_payment_id = req[r].gw_payment_id,
            ![req[r].payment_id].updated_at = now]
    /\ Goto(r, "wh_cascade")
    /\ UNCHANGED <<appointments, operations, hospitals, payment_webhooks, gateway, config, now, req, resp>>

\* the UPDATE of the payment row, by id
razorpay_webhook_update(r) ==
    /\ pc[r] = "wh_update"
    /\ payments' = [payments EXCEPT
            ![req[r].payment_id].status =
                IF req[r].event_type = "payment.captured" THEN "COMPLETED" ELSE "FAILED",
            ![req[r].payment_id].razorpay_payment_id = req[r].gw_payment_id,
            ![req[r].payment_id].updated_at = now]
    /\ Goto(r, IF req[r].event_type = "payment.captured" THEN "wh_cascade" ELSE "wh_mark")
    /\ UNCHANGED <<appointments, operations, hospitals, payment_webhooks, gateway, config, now, req, resp>>

\* the UPDATE of the booking the payment references
razorpay_webhook_cascade(r) ==
    /\ pc[r] = "wh_cascade"
    /\ ConfirmBooking(payments[req[r].payment_id])
    /\ Goto(r, "wh_mark")
    /\ UNCHANGED <<hospitals, payments, payment_webhooks, gateway, config, now, req, resp>>

razorpay_webhook_mark(r) ==
    /\ pc[r] = "wh_mark"
    /\ mark_webhook_processed(req[r].webhook_id, req[r].payment_id, req[r].error)
    /\ Return(r, IF req[r].error = "" THEN "success Webhook processed"
                 ELSE "error " \o req[r].error)
    /\ UNCHANGED <<appointments, operations, hospitals, payments, gateway, config, now>>

\* the handler stops where it is: the worker dies, or a store call raises and the
\* except clause answers; what it wrote so far stays written
razorpay_webhook_crash(r) ==
    /\ pc[r] \in {"wh_save", "wh_find", "wh_update", "wh_cascade", "wh_mark"}
    /\ pc' = [pc EXCEPT ![r] = "done"]
    /\ resp' = [resp EXCEPT ![r] = "crashed " \o pc[r]]
    /\ UNCHANGED <<stores, gateway, config, now, req>>

\* ------------------------------------------------------- PaymentService
\* PaymentService.create_order: gateway.create_order raises when the gateway
\* does not answer 200/201 or has no credentials
PaymentService_create_order(r, booking_id, booking_type, amount, user_id, gw_ok) ==
    /\ Arrives(r)
    /\ IF OrderCreated(gw_ok) THEN
            /\ gw_orders' = gw_orders + 1
            /\ payments' = Append(payments,
                    NewPayment(user_id,
                               IF booking_type = "appointment" THEN booking_id ELSE 0,
                               IF booking_type = "appointment" THEN 0 ELSE booking_id,
                               amount, RazorpayOrder(gw_orders + 1), NoKey))
            /\ Return(r, <<"200 created", Len(payments) + 1, RazorpayOrder(gw_orders + 1)>>)
       ELSE /\ Return(r, "RuntimeError")
            /\ UNCHANGED <<gw_orders, payments>>
    /\ UNCHANGED <<appointments, operations, hospitals, payment_webhooks, gw_payments,
                   gw_transfers, config, now>>

\* a processing that takes every event for a capture
process_webhook_find_any_event(r, event, payload_data) ==
    /\ Arrives(r)
    /\ \E first \in First(PaymentsByOrder(payload_data.order_id)) :
        IF first = 0 THEN Return(r, "None")
        ELSE /\ Goto(r, "pw_update")
             /\ req' = [req EXCEPT ![r] = [NoReq EXCEPT !.payment_id = first,
                            !.gw_payment_id = payload_data.payment_id,
                            !.event_type = event, !.order_id = payload_data.order_id]]
             /\ UNCHANGED resp
    /\ UNCHANGED <<stores, gateway, config, now>>

\* PaymentService.process_webhook(event, payload_data) up to the SELECT of the payment
process_webhook_find(r, event, payload_data) ==
    /\ Arrives(r)
    /\ \E first \in First(PaymentsByOrder(payload_data.order_id)) :
        IF event # "payment.captured" \/ first = 0 THEN Return(r, "None")
        ELSE /\ Goto(r, "pw_update")
             /\ req' = [req EXCEPT ![r] = [NoReq EXCEPT !.payment_id = first,
                            !.gw_payment_id = payload_data.payment_id,
                            !.event_type = event, !.order_id = payload_data.order_id]]
             /\ UNCHANGED resp
    /\ UNCHANGED <<stores, gateway, config, now>>

process_webhook_update(r) ==
    /\ pc[r] = "pw_update"
    /\ payments' = [payments EXCEPT
            ![req[r].payment_id].status = "COMPLETED",
            ![req[r].payment_id].razorpay_payment_id = req[r].gw_payment_id]
    /\ Goto(r, "pw_cascade")
    /\ UNCHANGED <<appointments, operations, hospitals, payment_webhooks, gateway, config, now, req, resp>>

\* the share of a payment the platform keeps, in percent (0.10)
PLATFORM_COMMISSION_RATE == 10

\* hospitals.linked_account_id: hospital 10 has a payout account, 11 has none
linked_account_id(hospital_id) == IF hospital_id = 10 THEN "acc_10" ELSE ""

\* create_transfer of the configured gateway: POST /payments/{payment_id}/transfers;
\* transfer_ok is whether the gateway supports transfers and answered 200/201,
\* otherwise the call returns None
create_transfer(payment_id, account, amount_paise, notes, transfer_ok) ==
    gw_transfers' = Append(gw_transfers,
        [payment_id |-> payment_id, account |-> account, amount |-> amount_paise,
         notes |-> notes, result |-> transfer_ok])

\* a split that asks for the transfer whether or not the hospital has an account
_process_split_unconditional(p_data, p_id, gw_payment_id, transfer_ok) ==
    LET hospital_id == IF p_data.appointment_id \in DOMAIN appointments
                       THEN appointments[p_data.appointment_id].hospital_id ELSE 0
        amount_paise == p_data.amount * 100
        transfer_amt == (amount_paise * (100 - PLATFORM_COMMISSION_RATE)) \div 100
    IN  IF hospital_id = 0
        THEN UNCHANGED gw_transfers
        ELSE create_transfer(gw_payment_id, linked_account_id(hospital_id), transfer_amt, p_id,
                             transfer_ok)

\* PaymentService._process_split: the hospital is read from the payment's
\* appointment alone; int() truncates
_process_split(p_data, p_id, gw_payment_id, transfer_ok) ==
    LET hospital_id == IF p_data.appointment_id \in DOMAIN appointments
                       THEN appointments[p_data.appointment_id].hospital_id ELSE 0
        amount_paise == p_data.amount * 100
        transfer_amt == (amount_paise * (100 - PLATFORM_COMMISSION_RATE)) \div 100
    IN  IF hospital_id = 0 \/ linked_account_id(hospital_id) = ""
        THEN UNCHANGED gw_transfers
        ELSE create_transfer(gw_payment_id, linked_account_id(hospital_id), transfer_amt, p_id,
                             transfer_ok)

\* a cascade that takes the confirmation back when the transfer did not succeed
process_webhook_cascade_reverting(r, transfer_ok) ==
    /\ pc[r] = "pw_cascade"
    /\ LET p == payments[req[r].payment_id] IN
        /\ IF p.appointment_id # 0
           THEN appointments' = [i \in DOMAIN appointments |->
                   IF i = p.appointment_id
                   THEN [appointments[i] EXCEPT
                            !.status = IF transfer_ok THEN "confirmed" ELSE "pending"]
                   ELSE appointments[i]]
           ELSE UNCHANGED appointments
        /\ _process_split(p, req[r].payment_id, req[r].gw_payment_id, transfer_ok)
    /\ Return(r, "None")
    /\ UNCHANGED <<operations, hospitals, payments, payment_webhooks, gw_orders, gw_payments,
                   config, now>>

\* only a payment's appointment is confirmed by process_webhook; the split follows
process_webhook_cascade(r, transfer_ok) ==
    /\ pc[r] = "pw_cascade"
    /\ LET p == payments[req[r].payment_id] IN
        /\ IF p.appointment_id # 0
           THEN appointments' = [i \in DOMAIN appointments |->
                   IF i = p.appointment_id THEN [appointments[i] EXCEPT !.status = "confirmed"]
                   ELSE appointments[i]]
           ELSE UNCHANGED appointments
        /\ _process_split(p, req[r].payment_id, req[r].gw_payment_id, transfer_ok)
    /\ Return(r, "None")
    /\ UNCHANGED <<operations, hospitals, payments, payment_webhooks, gw_orders, gw_payments,
                   config, now>>

\* the wall clock passes to the next second
Tick ==
    /\ now < MaxClock
    /\ now' = now + 1
    /\ UNCHANGED <<stores, gateway, config, pc, req, resp>>

\* ------------------------------------------------------ specifications
Configured == [webhook_secret |-> "whsec", keys |-> TRUE]

Configs ==
    {Configured, [Configured EXCEPT !.webhook_secret = ""], [Configured EXCEPT !.keys = FALSE]}

Appointment1 ==
    [user_id |-> 1, doctor_id |-> 5, hospital_id |-> 10, date |-> 2, time_slot |-> "10:00",
     status |-> "pending"]

Appointment2 == [Appointment1 EXCEPT !.user_id = 2, !.time_slot = "10:30"]

Operation1 ==
    [patient_id |-> 1, doctor_id |-> 5, hospital_id |-> 10, operation_date |-> 2,
     status |-> "pending"]

\* -------------------------------------------------------- mobile server
\* a time of day as the client sends it, "10:15 AM": hour, minute, AM or PM
MobileTimes == {<<10, 0, "AM">>, <<10, 15, "AM">>, <<10, 0, "PM">>}
MobileNumbers == {"9000000001", "9000000002"}
HospitalInputs == {10, 11}

\* the conversion to 24-hour format, in minutes of the day
MinutesOfDay(time) ==
    LET hour == IF time[3] = "PM" /\ time[1] # 12 THEN time[1] + 12
                ELSE IF time[3] = "AM" /\ time[1] = 12 THEN 0
                ELSE time[1]
    IN  hour * 60 + time[2]

time_diff(t1, t2) ==
    IF MinutesOfDay(t1) >= MinutesOfDay(t2) THEN MinutesOfDay(t1) - MinutesOfDay(t2)
    ELSE MinutesOfDay(t2) - MinutesOfDay(t1)

\* check_time_slot_availability: no appointment and no operation of the hospital
\* on the date lies within 30 minutes of the time
check_time_slot_availability(hospital_id, date, time) ==
    /\ \A i \in DOMAIN appointments :
          appointments[i].hospital_id = hospital_id /\ appointments[i].appointment_date = date
          => ~(time_diff(time, appointments[i].appointment_time) < 30)
    /\ \A i \in DOMAIN operations :
          operations[i].hospital_id = hospital_id /\ operations[i].operation_date = date
          => ~(time_diff(time, operations[i].operation_time) < 30)

\* check_booking_deadlock: the patient has no pending booking at the hospital on the date
check_booking_deadlock(patient_mobile, hospital_id, date) ==
    /\ \A i \in DOMAIN appointments :
          ~(/\ appointments[i].patient_mobile = patient_mobile
            /\ appointments[i].hospital_id = hospital_id
            /\ appointments[i].appointment_date = date
            /\ appointments[i].status = "pending")
    /\ \A i \in DOMAIN operations :
          ~(/\ operations[i].patient_mobile = patient_mobile
            /\ operations[i].hospital_id = hospital_id
            /\ operations[i].operation_date = date
            /\ operations[i].status = "pending")

\* The checks of the mobile server's book_appointment and book_operation made
\* before the patient row is written; "ok" when all pass.  No order_id is sent.
MobilePrecheck(patient_mobile, hospital_id, date, time) ==
    IF ~check_booking_deadlock(patient_mobile, hospital_id, date) THEN "409 pending booking"
    ELSE IF ~check_time_slot_availability(hospital_id, date, time) THEN "409 slot taken"
    ELSE IF date < Today THEN "400 past date"
    ELSE IF hospitals[hospital_id].status # "approved" THEN "403 hospital not approved"
    ELSE "ok"

\* book_appointment and book_operation of the mobile server, up to the re-check
mobile_book_validate(r, kind, patient_mobile, hospital_id, date, time) ==
    /\ Arrives(r)
    /\ LET pre == MobilePrecheck(patient_mobile, hospital_id, date, time) IN
        IF pre # "ok" THEN Return(r, pre)
        ELSE /\ Goto(r, IF kind = "appointment" THEN "ma_recheck" ELSE "mo_recheck")
             /\ req' = [req EXCEPT ![r] = [NoReq EXCEPT !.patient_mobile = patient_mobile,
                            !.hospital_id = hospital_id, !.date = date, !.time = time]]
             /\ UNCHANGED resp
    /\ UNCHANGED <<stores, gateway, config, now>>

\* the availability check made again before the INSERT
mobile_book_recheck(r) ==
    /\ pc[r] \in {"ma_recheck", "mo_recheck"}
    /\ IF ~check_time_slot_availability(req[r].hospital_id, req[r].date, req[r].time)
       THEN Return(r, "409 slot taken")
       ELSE /\ Goto(r, IF pc[r] = "ma_recheck" THEN "ma_insert" ELSE "mo_insert")
            /\ UNCHANGED <<req, resp>>
    /\ UNCHANGED <<stores, gateway, config, now>>

\* book_appointment of the mobile server: the INSERT
mobile_book_appointment_insert(r) ==
    /\ pc[r] = "ma_insert"
    /\ appointments' = Append(appointments,
            [patient_mobile |-> req[r].patient_mobile, hospital_id |-> req[r].hospital_id,
             appointment_date |-> req[r].date, appointment_time |-> req[r].time,
             status |-> "pending"])
    /\ Return(r, "200 booked")
    /\ UNCHANGED <<operations, hospitals, payments, payment_webhooks, gateway, config, now>>

\* book_operation of the mobile server: the INSERT
mobile_book_operation_insert(r) ==
    /\ pc[r] = "mo_insert"
    /\ operations' = Append(operations,
            [patient_mobile |-> req[r].patient_mobile, hospital_id |-> req[r].hospital_id,
             operation_date |-> req[r].date, operation_time |-> req[r].time,
             status |-> "pending"])
    /\ Return(r, "200 booked")
    /\ UNCHANGED <<appointments, hospitals, payments, payment_webhooks, gateway, config, now>>

\* ------------------------------------------------- hospital registration
Emails == {"a@h.in", "b@h.in", "h10@h.in"}

\* select id from hospitals where email = ...
HospitalsByEmail(email) == {h \in DOMAIN hospitals : hospitals[h].email = email}

\* the id the store gives the next hospital row
NewHospitalId == 10 + Cardinality(DOMAIN hospitals)

InsertHospital(email) ==
    hospitals' = hospitals @@ (NewHospitalId :> [status |-> "pending", email |-> email])

\* The payment checks of the router's register_hospital; "ok" when all pass.
\* payment_id 0 is a request without payment_id.
RegistrationPrecheck(payment_id) ==
    IF payment_id = 0 THEN "400 Payment is required"
    ELSE IF payment_id \notin DOMAIN payments THEN "404 Payment not found"
    ELSE IF payments[payment_id].status # "COMPLETED" THEN "400 Payment not completed"
    ELSE IF payments[payment_id].metadata_type # "hospital_registration"
        THEN "400 Invalid payment"
    ELSE IF payments[payment_id].hospital_id # 0 THEN "400 payment already used"
    ELSE "ok"

\* register_hospital up to and including the SELECT of the payment
register_hospital_payment(r, payment_id, email) ==
    /\ Arrives(r)
    /\ LET pre == RegistrationPrecheck(payment_id) IN
        IF pre # "ok" THEN Return(r, pre)
        ELSE /\ Goto(r, "rh_email")
             /\ req' = [req EXCEPT ![r] = [NoReq EXCEPT !.payment_id = payment_id,
                                                        !.email = email]]
             /\ UNCHANGED resp
    /\ UNCHANGED <<stores, gateway, config, now>>

\* register_hospital: the SELECT of hospitals by email
register_hospital_email(r) ==
    /\ pc[r] = "rh_email"
    /\ IF HospitalsByEmail(req[r].email) # {}
       THEN Return(r, "400 Hospital with this email already registered")
       ELSE Goto(r, "rh_insert") /\ UNCHANGED <<req, resp>>
    /\ UNCHANGED <<stores, gateway, config, now>>

\* register_hospital: the INSERT; the payment row is left as it was
register_hospital_insert(r) ==
    /\ pc[r] = "rh_insert"
    /\ InsertHospital(req[r].email)
    /\ Return(r, <<"registered", NewHospitalId, req[r].payment_id>>)
    /\ UNCHANGED <<appointments, operations, payments, payment_webhooks, gateway, config, now>>

\* The payment checks of HospitalService.register_hospital; "ok" when all pass.
ServiceRegistrationPrecheck(payment_id) ==
    IF payment_id \notin DOMAIN payments \/ payments[payment_id].status # "COMPLETED"
        THEN "400 Invalid or incomplete payment"
    ELSE IF payments[payment_id].hospital_id # 0 THEN "400 Payment already used"
    ELSE "ok"

\* HospitalService.register_hospital up to and including the SELECT of the payment
HospitalService_register_hospital_payment(r, payment_id, email) ==
    /\ Arrives(r)
    /\ LET pre == ServiceRegistrationPrecheck(payment_id) IN
        IF pre # "ok" THEN Return(r, pre)
        ELSE /\ Goto(r, "hs_email")
             /\ req' = [req EXCEPT ![r] = [NoReq EXCEPT !.payment_id = payment_id,
                                                        !.email = email]]
             /\ UNCHANGED resp
    /\ UNCHANGED <<stores, gateway, config, now>>

\* HospitalService.register_hospital: the SELECT of hospitals by email
HospitalService_register_hospital_email(r) ==
    /\ pc[r] = "hs_email"
    /\ IF HospitalsByEmail(req[r].email) # {}
       THEN Return(r, "400 Hospital email already registered")
       ELSE Goto(r, "hs_insert") /\ UNCHANGED <<req, resp>>
    /\ UNCHANGED <<stores, gateway, config, now>>

\* HospitalService.register_hospital: the INSERT
HospitalService_register_hospital_insert(r) ==
    /\ pc[r] = "hs_insert"
    /\ InsertHospital(req[r].email)
    /\ Goto(r, "hs_link")
    /\ req' = [req EXCEPT ![r].hospital_id = NewHospitalId]
    /\ UNCHANGED <<appointments, operations, payments, payment_webhooks, gateway, config, now,
                   resp>>

\* HospitalService.register_hospital: the UPDATE that links the payment back
HospitalService_register_hospital_link(r) ==
    /\ pc[r] = "hs_link"
    /\ payments' = [payments EXCEPT ![req[r].payment_id].hospital_id = req[r].hospital_id]
    /\ Return(r, <<"registered", req[r].hospital_id, req[r].payment_id>>)
    /\ UNCHANGED <<appointments, operations, hospitals, payment_webhooks, gateway, config, now>>

InitCommon ==
    /\ hospitals = (10 :> [status |-> "approved", email |-> "h10@h.in"])
                   @@ (11 :> [status |-> "pending", email |-> "h11@h.in"])
                   @@ (12 :> [status |-> "ACTIVE", email |-> "h12@h.in"])
    /\ payment_webhooks = <<>>
    /\ gw_transfers = <<>>
    /\ now = 0
    /\ pc = [r \in Requests |-> "idle"]
    /\ req = [r \in Requests |-> NoReq]
    /\ resp = [r \in Requests |-> "none"]

\* ---- booking: an empty store
InitBook ==
    /\ InitCommon
    /\ appointments = <<>>
    /\ operations = <<>>
    /\ payments = <<>>
    /\ gw_orders = 0
    /\ gw_payments = <<>>
    /\ config = Configured

NextBook ==
    \E r \in Requests :
        \/ \E u \in Patients, d \in DoctorInputs, date \in DateInputs, slot \in TimeSlotInputs :
              \/ book_appointment_check(r, u, d, date, slot)
              \/ process_booking_check(r, u, d, date, slot)
              \/ book_operation(r, u, d, date)
              \/ OperationService_process_booking(r, u, d, date)
        \/ book_appointment_insert(r)
        \/ process_booking_insert(r)
        \/ Lifecycle(r)

SpecBook == InitBook /\ [][NextBook]_vars

\* ---- appointment booking alone, by the requests of the smaller scenarios
NextSlot ==
    \E r \in Requests : r <= NDeliveries /\
        \/ \E u \in Patients, d \in DoctorInputs, date \in DateInputs, slot \in TimeSlotInputs :
              \/ book_appointment_check(r, u, d, date, slot)
              \/ process_booking_check(r, u, d, date, slot)
        \/ book_appointment_insert(r)
        \/ process_booking_insert(r)

SpecSlot == InitBook /\ [][NextSlot]_vars

\* ---- orders: the bookings exist, no payment does
InitOrder ==
    /\ InitCommon
    /\ appointments = <<Appointment1, Appointment2>>
    /\ operations = <<Operation1>>
    /\ payments = <<>>
    /\ gw_orders = 0
    /\ gw_payments = <<>>
    /\ config \in {Configured, [Configured EXCEPT !.keys = FALSE]}

\* the bookings a payment is asked for: (appointment_id, operation_id)
BookingRefs == {<<1, 0>>, <<2, 0>>, <<0, 1>>}

NextOrder ==
    \/ Tick
    \/ \E r \in Requests :
        \/ \E u \in Patients, b \in BookingRefs, amount \in Amounts :
              create_razorpay_order_lookup(r, u, b[1], b[2], amount)
        \/ \E gw_ok \in BOOLEAN : create_razorpay_order_insert(r, gw_ok)
        \/ \E u \in Patients, b \in BookingRefs, amount \in Amounts, gw_ok \in BOOLEAN :
              PaymentService_create_order(r, IF b[1] # 0 THEN b[1] ELSE b[2],
                    IF b[1] # 0 THEN "appointment" ELSE "operation", amount, u, gw_ok)
        \/ \E u \in UserIds, p \in DOMAIN payments : complete_payment(r, u, p)

SpecOrder == InitOrder /\ [][NextOrder]_vars

\* ---- order requests that the validation has to turn away, among valid ones
AmountInputs == {0, 500}

\* (appointment_id, operation_id) of the requests: existing bookings, ids that
\* match no row, and neither id
BookingRefInputs == BookingRefs \cup {<<3, 0>>, <<0, 2>>, <<0, 0>>}

Creators == {r \in Requests : r <= NDeliveries}

NextCreate ==
    \E r \in Creators :
        \/ \E u \in Patients, b \in BookingRefInputs, amount \in AmountInputs :
              create_razorpay_order_lookup(r, u, b[1], b[2], amount)
        \/ \E gw_ok \in BOOLEAN : create_razorpay_order_insert(r, gw_ok)
        \/ \E u \in Patients, b \in BookingRefInputs \ {<<0, 0>>}, amount \in AmountInputs,
              gw_ok \in BOOLEAN :
              PaymentService_create_order(r, IF b[1] # 0 THEN b[1] ELSE b[2],
                    IF b[1] # 0 THEN "appointment" ELSE "operation", amount, u, gw_ok)

SpecCreate == InitOrder /\ [][NextCreate]_vars

\* ---- webhooks: a booking, its PENDING payment as create_razorpay_order
\* inserted it, and the payments the customer made at the gateway
Payment1(appointment_id, operation_id) ==
    [NewPayment(1, appointment_id, operation_id, 500, RazorpayOrder(1), <<1, 1, 0>>)
        EXCEPT !.hospital_id = 10]

GwPayment(status) == [order_id |-> RazorpayOrder(1), amount |-> 50000, status |-> status]

\* a capture of 400.00 INR for order 1, and a capture for an order that has no
\* Payment row
GwPaymentShort == [GwPayment("captured") EXCEPT !.amount = 40000]
GwPaymentUnknownOrder == [GwPayment("captured") EXCEPT !.order_id = RazorpayOrder(2)]

\* the appointment at hospital 11, which has no payout account
AppointmentUnlinked == [Appointment1 EXCEPT !.doctor_id = 6, !.hospital_id = 11]

InitHook ==
    /\ InitCommon
    /\ operations = <<Operation1>>
    /\ gw_orders = 2
    /\ \/ /\ appointments = <<Appointment1>>
          /\ payments \in {<<Payment1(1, 0)>>, <<Payment1(0, 1)>>}
          /\ gw_payments \in {<<GwPayment("failed"), GwPayment("captured")>>,
                              <<GwPayment("authorized"), GwPayment("captured")>>,
                              <<GwPaymentShort, GwPaymentUnknownOrder>>}
          /\ config \in Configs
       \/ /\ appointments = <<AppointmentUnlinked>>
          /\ payments = <<[Payment1(1, 0) EXCEPT !.hospital_id = 11]>>
          /\ gw_payments = <<GwPayment("failed"), GwPayment("captured")>>
          /\ config = Configured

Deliveries(r) ==
    \/ \E body \in GenuineBodies \cup TamperedBodies :
          \E sig \in Signatures(body) : razorpay_webhook_receive(r, body, sig)
    \/ razorpay_webhook_save(r)
    \/ \E up \in BOOLEAN : razorpay_webhook_find(r, up)
    \/ razorpay_webhook_update(r)
    \/ razorpay_webhook_cascade(r)
    \/ razorpay_webhook_mark(r)
    \/ \E body \in GenuineBodies : process_webhook_find(r, body.event, body)
    \/ process_webhook_update(r)
    \/ \E transfer_ok \in BOOLEAN : process_webhook_cascade(r, transfer_ok)

\* the requests served in the webhook scenarios
Deliverers == {r \in Requests : r <= NDeliveries}

NextHook ==
    \E r \in Deliverers :
        \/ Deliveries(r)
        \/ \E u \in UserIds, p \in DOMAIN payments : complete_payment(r, u, p)
        \/ \E p \in DOMAIN payments, up \in BOOLEAN : verify_payment_manually(r, p, up)
        \/ Lifecycle(r)

SpecHook == InitHook /\ [][NextHook]_vars

\* requests handled one after another: none arrives while another is in flight
Sequential ==
    \A r \in Requests : pc'[r] # pc[r] /\ pc[r] = "idle" =>
        \A q \in Requests \ {r} : pc[q] \in {"idle", "done"}

SpecHookSeq == InitHook /\ [][NextHook /\ Sequential]_vars

\* ---- webhooks handled one after another by workers that may stop midway
Crashers == {r \in Requests : r <= NDeliveries + 1}

NextCrash ==
    \E r \in Crashers :
        \/ Deliveries(r)
        \/ razorpay_webhook_crash(r)
        \/ Lifecycle(r)

SpecCrash == InitHook /\ [][NextCrash /\ Sequential]_vars

\* ---- hospital registration: the payments that create_hospital_registration_order
\* and PaymentService.create_order inserted, as the gateway's events left them
PurchasePayment(hospital_registration, plan_name, status) ==
    [NewPayment(0, 0, 0, 500, RazorpayOrder(2),
                <<IF hospital_registration THEN "HOSPREG" ELSE "PKG", 0, plan_name>>)
        EXCEPT !.status = status,
               !.metadata_type = IF hospital_registration THEN "hospital_registration"
                                 ELSE "package_purchase"]

ServicePayment(status) ==
    [NewPayment(1, 1, 0, 500, RazorpayOrder(1), NoKey) EXCEPT !.status = status]

PaymentStatuses == {"PENDING", "COMPLETED"}

InitRegister ==
    /\ InitCommon
    /\ appointments = <<Appointment1>>
    /\ operations = <<Operation1>>
    /\ gw_orders = 2
    /\ gw_payments = <<>>
    /\ config = Configured
    /\ \E s1 \in PaymentStatuses, s2 \in PaymentStatuses, reg \in BOOLEAN :
          payments = <<ServicePayment(s1), PurchasePayment(reg, "basic", s2)>>

PaymentIdInputs == 0..3

NextRegister ==
    \E r \in Deliverers :
        \/ \E payment_id \in PaymentIdInputs, email \in Emails :
              \/ register_hospital_payment(r, payment_id, email)
              \/ HospitalService_register_hospital_payment(r, payment_id, email)
        \/ register_hospital_email(r)
        \/ register_hospital_insert(r)
        \/ HospitalService_register_hospital_email(r)
        \/ HospitalService_register_hospital_insert(r)
        \/ HospitalService_register_hospital_link(r)

SpecRegister == InitRegister /\ [][NextRegister]_vars

\* registration requests handled one after another
SpecRegisterSeq == InitRegister /\ [][NextRegister /\ Sequential]_vars

\* ---- at-least-once delivery of the capture events: the gateway's lookup may
\* fail to answer while the first delivery is handled and answers from then on;
\* the provider sends the next delivery when the one before it has been answered.
\* A redelivery carries the bytes of the first delivery: the provider writes
\* every body in the one form, the compact one.
CaptureBodies == {b \in GenuineBodies : b.event = "payment.captured" /\ b.compact}

Redeliveries(r) ==
    \/ \E body \in CaptureBodies :
          razorpay_webhook_receive(r, body, HMAC(config.webhook_secret, body))
    \/ razorpay_webhook_save(r)
    \/ \E up \in {r > 1, TRUE} : razorpay_webhook_find(r, up)
    \/ razorpay_webhook_update(r)
    \/ razorpay_webhook_cascade(r)
    \/ razorpay_webhook_mark(r)

\* the provider posts the event once more after an answer: the last worker
\* serves every further delivery
provider_redelivers(r) ==
    /\ r = NDeliveries
    /\ pc[r] = "done"
    /\ pc' = [pc EXCEPT ![r] = "idle"]
    /\ resp' = [resp EXCEPT ![r] = "none"]
    /\ UNCHANGED <<stores, gateway, config, now, req>>

NextRedeliver ==
    \E r \in Deliverers :
        \/ Redeliveries(r)
        \/ provider_redelivers(r)

SpecRedeliver ==
    InitHook /\ [][NextRedeliver /\ Sequential]_vars /\ WF_vars(NextRedeliver /\ Sequential)

\* ---- appointments booked, cancelled and listed, one request after another
Bookers == {r \in Requests : r <= NDeliveries + 1}

NextAvail ==
    \E r \in Bookers :
        \/ \E u \in Patients, d \in DoctorInputs, date \in DateInputs, slot \in TimeSlotInputs :
              \/ book_appointment_check(r, u, d, date, slot)
              \/ process_booking_check(r, u, d, date, slot)
        \/ book_appointment_insert(r)
        \/ process_booking_insert(r)
        \/ \E a \in DOMAIN appointments, u \in UserIds :
              \/ cancel_appointment(r, a, u)
              \/ \E role \in Roles : AppointmentService_update_status(r, a, u, role, "cancel")
        \/ \E d \in DoctorInputs, date \in DateInputs : get_available_slots_doctor(r, d, date)
        \/ get_available_slots_select(r)

SpecAvail == InitBook /\ [][NextAvail /\ Sequential]_vars

\* ---- the mobile server's bookings, handled concurrently
NextMobile ==
    \E r \in Deliverers :
        \/ \E kind \in {"appointment", "operation"}, patient_mobile \in MobileNumbers,
              hospital_id \in HospitalInputs, date \in DateInputs, time \in MobileTimes :
                mobile_book_validate(r, kind, patient_mobile, hospital_id, date, time)
        \/ mobile_book_recheck(r)
        \/ mobile_book_appointment_insert(r)
        \/ mobile_book_operation_insert(r)

SpecMobile == InitBook /\ [][NextMobile]_vars

\* ---- signature verification alone
GatewayImpls == {"PaymentGateway", "razorpay", "cashfree"}
Timestamps == {"", "1700000000"}

\* a header that is no ASCII text
MalformedSig == <<"non-ascii">>

\* the headers presented: those of the webhook scenarios, a malformed one, and
\* Cashfree's signature over timestamp + body
SignatureInputs(body) ==
    Signatures(body) \cup {MalformedSig}
        \cup {HMAC(config.webhook_secret, body) \o <<t>> : t \in Timestamps}

NextVerify ==
    \E r \in Deliverers, impl \in GatewayImpls, body \in GenuineBodies \cup TamperedBodies,
       timestamp \in Timestamps :
        \E signature \in SignatureInputs(body) :
            verify_call(r, impl, body, signature, timestamp)

SpecVerify == InitHook /\ [][NextVerify]_vars

\* ---- webhook deliveries alone, handled concurrently
NextDeliver == \E r \in Deliverers : Deliveries(r)

SpecDeliver == InitHook /\ [][NextDeliver]_vars

\* ------------------------------------------------------------- properties
SameSlot(x, y) ==
    /\ x.doctor_id = y.doctor_id
    /\ x.date = y.date
    /\ x.time_slot = y.time_slot

\* C1: for every doctor, date and time slot at most one appointment that is not
\* cancelled exists, whatever the interleaving of the booking requests.
C1_AtMostOneActivePerSlot ==
    \A i, j \in DOMAIN appointments :
        /\ i # j
        /\ SameSlot(appointments[i], appointments[j])
        /\ appointments[i].status # "cancelled"
        => appointments[j].status = "cancelled"

Processed(webhook_id) ==
    /\ WebhookRows(webhook_id) # {}
    /\ \A i \in WebhookRows(webhook_id) : payment_webhooks[i].processed

BookingStatus(p) ==
    IF p.appointment_id # 0 THEN appointments[p.appointment_id].status
    ELSE operations[p.operation_id].status

\* a step ends with Payment i COMPLETED and the booking it references confirmed
CompletedAndConfirmed(i) ==
    /\ payments'[i].status = "COMPLETED"
    /\ \E p \in {payments[i]} : BookingStatus(p)' = "confirmed"

\* C2: with deliveries handled one after another, a signed payment.captured
\* delivery that passes authentication and the gateway cross-check ends with the
\* Payment COMPLETED, its booking confirmed and the event marked processed; a
\* later delivery of the same body and signature is answered with success at
\* the dedup check and writes nothing to any table.
C2_ReplayAppliesOnce ==
    [][\A r \in Requests :
        /\ razorpay_webhook_mark(r) /\ req[r].event_type = "payment.captured"
                /\ req[r].error = ""
            => /\ CompletedAndConfirmed(req[r].payment_id)
               /\ \E w \in {req[r].webhook_id} : Processed(w)'
        /\ pc[r] = "idle" /\ pc'[r] # "idle" =>
           \A body \in GenuineBodies :
            LET sig == HMAC(config.webhook_secret, body) IN
            /\ body.event = "payment.captured"
            /\ process_webhook_event(body, sig) = "ok"
            /\ Processed(body.id)
            /\ razorpay_webhook_receive(r, body, sig)
            => /\ resp'[r] = "success Already processed"
               /\ UNCHANGED stores]_vars

\* reached: a second delivery was answered at the dedup check, the Payment is
\* COMPLETED by the first and its booking confirmed
C2_Witness ==
    \E r, q \in Requests :
        /\ resp[q] = "success Webhook processed"
        /\ resp[r] = "success Already processed"
        /\ Len(payment_webhooks) = 1
        /\ payment_webhooks[1].event_type = "payment.captured"
        /\ payment_webhooks[1].processing_error = ""
        /\ payments[1].status = "COMPLETED"
        /\ BookingStatus(payments[1]) = "confirmed"

\* C3: of the webhook deliveries for one gateway order exactly one applies the
\* status update to the Payment: every delivery that applies it finds the
\* Payment PENDING.
C3_OneDeliveryApplies ==
    [][\A r \in Requests :
        razorpay_webhook_update(r) \/ process_webhook_update(r)
        => payments[req[r].payment_id].status = "PENDING"]_vars

\* C4: a Payment that is COMPLETED or FAILED keeps its status in every step.
C4_TerminalPaymentStatus ==
    [][\A p \in DOMAIN payments :
        payments[p].status \in {"COMPLETED", "FAILED"}
        => payments'[p].status = payments[p].status]_vars

\* C5: create-order calls of one requester for one booking within one time
\* bucket of the idempotency key leave one Payment row for that booking.
C5_OnePaymentPerWindow ==
    \A i, j \in DOMAIN payments :
        /\ payments[i].user_id = payments[j].user_id
        /\ payments[i].appointment_id = payments[j].appointment_id
        /\ payments[i].operation_id = payments[j].operation_id
        /\ payments[i].created_at = payments[j].created_at
        => i = j

\* C6: a delivery without a signature header, or whose signature is not the
\* HMAC of its body under the configured secret, is rejected and no table changes.
C6_BadSignatureRejected ==
    [][\A r \in Requests :
        pc[r] = "idle" /\ pc'[r] # "idle" =>
        \A body \in GenuineBodies \cup TamperedBodies : \A sig \in Signatures(body) :
            /\ sig = NoSig \/ sig # HMAC(config.webhook_secret, body)
            /\ razorpay_webhook_receive(r, body, sig)
            => /\ resp'[r] \in {"error Missing signature", "error Invalid signature"}
               /\ UNCHANGED stores]_vars

\* reached: a delivery was rejected for its signature while the secret is
\* configured, and no event row exists
C6_Witness ==
    \E r \in Requests :
        /\ resp[r] = "error Invalid signature"
        /\ config.webhook_secret # ""
        /\ payment_webhooks = <<>>
        /\ payments[1].status = "PENDING"

\* C7: for each gateway order id at most one Payment row is COMPLETED.
C7_OneCompletedPerOrder ==
    \A i, j \in DOMAIN payments :
        /\ payments[i].razorpay_order_id = payments[j].razorpay_order_id
        /\ payments[i].status = "COMPLETED"
        /\ payments[j].status = "COMPLETED"
        => i = j

\* C8: when a delivery that applied a payment.captured event to a Payment
\* returns, the booking the Payment references is confirmed, appointment or
\* operation.
C8_CaptureConfirmsBooking ==
    [][\A r \in Requests :
        \/ \E transfer_ok \in BOOLEAN : process_webhook_cascade(r, transfer_ok)
        \/ razorpay_webhook_mark(r) /\ req[r].event_type = "payment.captured"
                /\ req[r].error = ""
        => CompletedAndConfirmed(req[r].payment_id)]_vars

\* C9: a booking becomes confirmed only from pending.
C9_ConfirmedOnlyFromPending ==
    [][/\ \A a \in DOMAIN appointments :
            appointments'[a].status = "confirmed" /\ appointments[a].status # "confirmed"
            => appointments[a].status = "pending"
       /\ \A o \in DOMAIN operations :
            operations'[o].status = "confirmed" /\ operations[o].status # "confirmed"
            => operations[o].status = "pending"]_vars

\* C10: an appointment or operation that is completed or cancelled keeps its
\* status in every step.
C10_TerminalBookingStatus ==
    [][/\ \A a \in DOMAIN appointments :
            appointments[a].status \in {"completed", "cancelled"}
            => appointments'[a].status = appointments[a].status
       /\ \A o \in DOMAIN operations :
            operations[o].status \in {"completed", "cancelled"}
            => operations'[o].status = operations[o].status]_vars

\* C11: every step of the handling of a payment.failed event leaves the
\* appointment and operation rows as they are, and the step that applies the
\* event sets the Payment FAILED.
C11_FailedLeavesBooking ==
    [][\A r \in Requests :
        pc'[r] # pc[r] /\ req[r].event_type = "payment.failed"
        => /\ UNCHANGED <<appointments, operations>>
           /\ pc[r] = "wh_update" => payments'[req[r].payment_id].status = "FAILED"]_vars

\* reached: a payment.failed event was applied and answered, the Payment is
\* FAILED and its booking still pending
C11_Witness ==
    \E r \in Requests :
        /\ resp[r] = "success Webhook processed"
        /\ Len(payment_webhooks) = 1
        /\ payment_webhooks[1].event_type = "payment.failed"
        /\ payment_webhooks[1].processed
        /\ payments[1].status = "FAILED"
        /\ BookingStatus(payments[1]) = "pending"

\* C12: a create-order call whose gateway order creation fails (no credentials,
\* or no 200/201 answer) inserts no Payment row and is answered with an error.
C12_GatewayFailureNoRow ==
    [][\A r \in Requests : \A gw_ok \in BOOLEAN :
        /\ ~OrderCreated(gw_ok)
        /\ \/ create_razorpay_order_insert(r, gw_ok)
           \/ \E u \in Patients, b \in BookingRefs, amount \in Amounts :
                PaymentService_create_order(r, IF b[1] # 0 THEN b[1] ELSE b[2],
                    IF b[1] # 0 THEN "appointment" ELSE "operation", amount, u, gw_ok)
        => /\ payments' = payments
           /\ resp'[r] \in {"500 Failed to create Razorpay order", "RuntimeError"}]_vars

\* C13: a delivery whose Payment is found and whose gateway lookup fails, or
\* returns an amount or order id other than the stored Payment's, goes to the
\* marking with an error, and its marking leaves the Payment, appointment and
\* operation rows as they are.
C13_UnverifiedLeavesState ==
    [][\A r \in Requests :
        /\ \A up \in BOOLEAN : \A i \in PaymentsByOrder(req[r].order_id) :
            LET k == get_payment_details(req[r].gw_payment_id, up) IN
            /\ razorpay_webhook_find(r, up)
            /\ IF k = 0 THEN TRUE
               ELSE \/ gw_payments[k].order_id # payments[i].razorpay_order_id
                    \/ gw_payments[k].amount # payments[i].amount * 100
            => /\ pc'[r] = "wh_mark"
               /\ req'[r].error # ""
               /\ UNCHANGED stores
        /\ razorpay_webhook_mark(r) /\ req[r].error # ""
            => UNCHANGED <<payments, appointments, operations>>]_vars

\* reached: a capture of another amount was answered with the mismatch error,
\* the Payment is PENDING and its booking pending
C13_Witness ==
    \E r \in Requests :
        /\ resp[r] = "error Payment verification mismatch"
        /\ payments[1].status = "PENDING"
        /\ BookingStatus(payments[1]) = "pending"

\* the rows of an event are all processed and carry an error
ProcessedWithError(webhook_id) ==
    /\ Processed(webhook_id)
    /\ \A i \in WebhookRows(webhook_id) : payment_webhooks[i].processing_error # ""

\* C14: a signed delivery whose order id matches no Payment row ends with its
\* event rows processed with an error, changes no Payment, appointment or
\* operation row, and is answered by the handler's returned body (HTTP 200).
C14_UnknownOrderRecorded ==
    [][\A r \in Requests :
        /\ (\E up \in BOOLEAN : razorpay_webhook_find(r, up))
                /\ PaymentsByOrder(req[r].order_id) = {}
            => /\ pc'[r] = "wh_mark"
               /\ req'[r].error = "Payment not found"
               /\ UNCHANGED stores
        /\ razorpay_webhook_mark(r) /\ req[r].error = "Payment not found"
            => /\ UNCHANGED <<payments, appointments, operations>>
               /\ \E w \in {req[r].webhook_id} : ProcessedWithError(w)'
               /\ resp'[r] = "error Payment not found"]_vars

\* reached: the delivery for the unknown order was answered and its event is
\* processed with an error
C14_Witness ==
    \E r \in Requests :
        /\ resp[r] = "error Payment not found"
        /\ Len(payment_webhooks) = 1
        /\ ProcessedWithError(payment_webhooks[1].webhook_id)
        /\ payments[1].status = "PENDING"
        /\ BookingStatus(payments[1]) = "pending"

\* C15: when the handler marks a payment.captured or payment.failed event whose
\* Payment row was found as processed, that Payment already carries the event's
\* status and gateway payment id.
C15_ProcessedAfterUpdate ==
    [][\A r \in Requests :
        /\ razorpay_webhook_mark(r)
        /\ req[r].payment_id # 0
        /\ req[r].event_type \in {"payment.captured", "payment.failed"}
        => /\ payments[req[r].payment_id].razorpay_payment_id = req[r].gw_payment_id
           /\ payments[req[r].payment_id].status =
                IF req[r].event_type = "payment.captured" THEN "COMPLETED" ELSE "FAILED"]_vars

\* request r delivers again an event whose earlier delivery stopped after the
\* UPDATE of the Payment and before the event was marked processed
RedeliveryAfterCrash(r) ==
    \E q \in Requests \ {r} :
        /\ resp[q] \in {"crashed wh_cascade", "crashed wh_mark"}
        /\ req[q].error = ""
        /\ req[q].webhook_id = req[r].webhook_id

\* C16: no step of a redelivery of an event whose earlier delivery crashed
\* between the Payment update and the marking changes a Payment, appointment or
\* operation row.
C16_RedeliveryAfterCrashNoOp ==
    [][\A r \in Requests :
        pc'[r] # pc[r] /\ pc[r] # "idle" /\ RedeliveryAfterCrash(r)
        => UNCHANGED <<payments, appointments, operations>>]_vars

\* the gateway holds a captured payment for the order of Payment p
GatewayConfirms(p) ==
    \E k \in DOMAIN gw_payments :
        /\ gw_payments[k].order_id = p.razorpay_order_id
        /\ gw_payments[k].status = "captured"

\* C17: a step that turns a Payment COMPLETED is taken only when the gateway
\* holds a captured payment for that Payment's order.
C17_CompletedOnlyWithGatewayConfirmation ==
    [][\A i \in DOMAIN payments :
        payments'[i].status = "COMPLETED" /\ payments[i].status # "COMPLETED"
        => GatewayConfirms(payments[i])]_vars

\* user u may move appointment a, or operation o, to the status new: its
\* assigned doctor to any status, its patient to cancelled
MayMoveAppointment(u, a, new) ==
    \/ u = appointments[a].doctor_id
    \/ u = appointments[a].user_id /\ new = "cancelled"

MayMoveOperation(u, o, new) ==
    \/ u = operations[o].doctor_id
    \/ u = operations[o].patient_id /\ new = "cancelled"

\* C18: a request of user u to an endpoint or service call on bookings or
\* payments changes the status of an appointment or operation only if u is its
\* assigned doctor, or u is its patient and the new status is cancelled.
C18_StatusChangedByEntitledUser ==
    [][\A r \in Requests : \A u \in UserIds :
        /\ pc[r] = "idle" /\ pc'[r] = "done"
        /\ \/ \E p \in DOMAIN payments : complete_payment(r, u, p)
           \/ \E a \in DOMAIN appointments :
                \/ confirm_appointment(r, a, u)
                \/ cancel_appointment(r, a, u)
                \/ mark_appointment_visited(r, a, u)
                \/ \E role \in Roles, action \in {"cancel", "confirm", "mark_visited"} :
                      AppointmentService_update_status(r, a, u, role, action)
           \/ \E o \in DOMAIN operations :
                \/ confirm_operation(r, o, u)
                \/ cancel_operation(r, o, u)
                \/ \E action \in {"cancel", "confirm"} :
                      OperationService_update_status(r, o, u, action)
        => /\ \A a \in DOMAIN appointments :
                appointments'[a].status # appointments[a].status
                => MayMoveAppointment(u, a, appointments'[a].status)
           /\ \A o \in DOMAIN operations :
                operations'[o].status # operations[o].status
                => MayMoveOperation(u, o, operations'[o].status)]_vars

\* C19: a create-order call that the validation turns away (amount <= 0, no
\* such booking, or a caller who does not own the booking) is answered with
\* that 400, 404 or 403 in its first step, creates no gateway order and inserts
\* no Payment row.
C19_InvalidOrderRejected ==
    [][\A r \in Requests :
        pc[r] = "idle" /\ pc'[r] # "idle" =>
        \A u \in Patients, b \in BookingRefInputs \ {<<0, 0>>}, amount \in AmountInputs :
            /\ OrderPrecheck(u, b[1], b[2], amount) # "ok"
            /\ \/ create_razorpay_order_lookup(r, u, b[1], b[2], amount)
               \/ \E gw_ok \in BOOLEAN :
                    PaymentService_create_order(r, IF b[1] # 0 THEN b[1] ELSE b[2],
                        IF b[1] # 0 THEN "appointment" ELSE "operation", amount, u, gw_ok)
            => /\ payments' = payments
               /\ gw_orders' = gw_orders
               /\ pc'[r] = "done"
               /\ create_razorpay_order_lookup(r, u, b[1], b[2], amount)
                    => resp'[r] = OrderPrecheck(u, b[1], b[2], amount)]_vars

\* the hospital of the booking Payment p references
BookingHospital(p) ==
    IF p.appointment_id # 0 THEN appointments[p.appointment_id].hospital_id
    ELSE operations[p.operation_id].hospital_id

\* the transfers the gateway was asked to make out of its payment k
TransfersOf(k) == {i \in DOMAIN gw_transfers : gw_transfers[i].payment_id = k}

\* C20: when a delivery that applied a payment.captured event returns and the
\* booking's hospital has a linked payout account, the gateway was asked for
\* exactly one transfer out of that payment, of 90% of the captured paise.
C20_OneTransferOfNinetyPercent ==
    [][\A r \in Requests :
        /\ \/ \E transfer_ok \in BOOLEAN : process_webhook_cascade(r, transfer_ok)
           \/ razorpay_webhook_mark(r) /\ req[r].event_type = "payment.captured"
                    /\ req[r].error = ""
        /\ linked_account_id(BookingHospital(payments[req[r].payment_id])) # ""
        => \E k \in {req[r].gw_payment_id} :
            /\ Cardinality(TransfersOf(k))' = 1
            /\ \A i \in TransfersOf(k)' :
                    gw_transfers'[i].amount * 100 = gw_payments[k].amount * 90]_vars

\* C21: a split whose transfer call did not succeed leaves the Payment row as
\* it was, COMPLETED, and the booking it references confirmed; no operation
\* row changes.
C21_FailedTransferKeepsState ==
    [][\A r \in Requests :
        process_webhook_cascade(r, FALSE) /\ gw_transfers' # gw_transfers
        => /\ payments' = payments
           /\ operations' = operations
           /\ payments[req[r].payment_id].status = "COMPLETED"
           /\ \E p \in {payments[req[r].payment_id]} : BookingStatus(p)' = "confirmed"]_vars

\* reached: a transfer was refused and the Payment is COMPLETED, its
\* appointment confirmed
C21_Witness ==
    /\ Len(gw_transfers) = 1
    /\ ~gw_transfers[1].result
    /\ payments[1].status = "COMPLETED"
    /\ BookingStatus(payments[1]) = "confirmed"

\* C22: the split of a captured payment whose appointment's hospital has no
\* linked payout account, or whose hospital cannot be read from the payment
\* (no appointment id), asks the gateway for no transfer.
C22_NoAccountNoTransfer ==
    [][\A r \in Requests : \A transfer_ok \in BOOLEAN :
        /\ process_webhook_cascade(r, transfer_ok)
        /\ IF payments[req[r].payment_id].appointment_id = 0 THEN TRUE
           ELSE linked_account_id(
                    appointments[payments[req[r].payment_id].appointment_id].hospital_id) = ""
        => gw_transfers' = gw_transfers]_vars

\* reached: the capture for the appointment at the hospital without account
\* was processed and no transfer was asked for
C22_Witness ==
    /\ appointments[1].hospital_id = 11
    /\ appointments[1].status = "confirmed"
    /\ payments[1].status = "COMPLETED"
    /\ gw_transfers = <<>>
    /\ \E r \in Requests : pc[r] = "done" /\ resp[r] = "None"

\* C23: no two operations that are not cancelled have the same doctor and date.
C23_AtMostOneOperationPerDay ==
    \A i, j \in DOMAIN operations :
        /\ operations[i].doctor_id = operations[j].doctor_id
        /\ operations[i].operation_date = operations[j].operation_date
        /\ operations[i].status # "cancelled"
        /\ operations[j].status # "cancelled"
        => i = j

ExpectedSignature(impl, body, timestamp) ==
    IF impl = "cashfree" THEN HMAC(config.webhook_secret, body) \o <<timestamp>>
    ELSE HMAC(config.webhook_secret, body)

\* C26: a call of any implementation's signature verification returns, never
\* raises, and returns True exactly when a secret is configured and the
\* signature is the HMAC of that implementation's message under it.
C26_VerifyNeverRaises ==
    [][\A r \in Requests : pc[r] = "idle" /\ pc'[r] = "done" =>
        \A impl \in GatewayImpls, body \in GenuineBodies \cup TamperedBodies,
           timestamp \in Timestamps :
            \A signature \in SignatureInputs(body) :
                verify_call(r, impl, body, signature, timestamp)
                => /\ resp'[r] # "TypeError"
                   /\ resp'[r] = "True" <=>
                        /\ config.webhook_secret # ""
                        /\ signature = ExpectedSignature(impl, body, timestamp)]_vars

C28_RegistrationNeedsRegistrationPayment ==
    [][\A r \in Requests :
        /\ pc[r] \in {"rh_insert", "hs_insert"} /\ DOMAIN hospitals' # DOMAIN hospitals
            => /\ req[r].payment_id \in DOMAIN payments
               /\ payments[req[r].payment_id].status = "COMPLETED"
               /\ payments[req[r].payment_id].metadata_type = "hospital_registration"
        /\ pc[r] = "idle" /\ pc'[r] # "idle"
           /\ (\E email \in Emails : register_hospital_payment(r, 0, email))
            => resp'[r] = "400 Payment is required" /\ UNCHANGED hospitals]_vars

\* C29: when two create_razorpay_order requests of one requester for one booking
\* both make the idempotency lookup before either inserts, one gateway order is
\* created and one Payment row exists for that booking: no two rows carry the
\* same idempotency key, each with a gateway order of its own.
C29_DoubleClickOneOrder ==
    \A i, j \in DOMAIN payments :
        /\ payments[i].internal_transaction_id # NoKey
        /\ payments[i].internal_transaction_id = payments[j].internal_transaction_id
        /\ \E n \in 1..gw_orders : payments[i].razorpay_order_id = RazorpayOrder(n)
        /\ \E n \in 1..gw_orders : payments[j].razorpay_order_id = RazorpayOrder(n)
        => i = j

\* C30: when an operation that set a Payment to COMPLETED returns (the webhook,
\* PaymentService.process_webhook, the complete endpoint or the manual verify),
\* the appointment or operation the Payment references is not pending.
C30_CompletedPaymentBookingNotPending ==
    [][\A r \in Requests : \A i \in DOMAIN payments :
        /\ pc[r] # "done" /\ pc'[r] = "done"
        /\ payments'[i].status = "COMPLETED"
        /\ IF pc[r] = "idle" THEN payments[i].status # "COMPLETED"
           ELSE /\ req[r].payment_id = i
                /\ \/ \E transfer_ok \in BOOLEAN : process_webhook_cascade(r, transfer_ok)
                   \/ razorpay_webhook_mark(r) /\ req[r].event_type = "payment.captured"
                        /\ req[r].error = ""
        => \E p \in {payments[i]} : BookingStatus(p)' # "pending"]_vars

\* the first delivery of the capture event of gateway payment k ended in the
\* failed gateway lookup, and the gateway's record of k matches PENDING Payment i
FirstDeliveryLostLookup(k, i) ==
    /\ config.keys
    /\ pc[1] = "done" /\ resp[1] = "error Payment verification failed"
    /\ \E w \in DOMAIN payment_webhooks : payment_webhooks[w].webhook_id = <<"evt", k>>
    /\ gw_payments[k].status = "captured"
    /\ payments[i].razorpay_order_id = gw_payments[k].order_id
    /\ payments[i].status = "PENDING"
    /\ ~verification_mismatch(gw_payments[k], gw_payments[k].order_id, payments[i])

\* C31: when the first delivery of a signed payment.captured event for a PENDING
\* Payment failed on the gateway lookup and the provider redelivers the event
\* once the gateway answers, the Payment eventually is COMPLETED and its booking
\* confirmed.
C31_RedeliveryEventuallyCompletes ==
    \A k \in 1..2 : \A i \in 1..1 :
        FirstDeliveryLostLookup(k, i)
            ~> (payments[i].status = "COMPLETED" /\ BookingStatus(payments[i]) = "confirmed")

\* C32: create_razorpay_order answers with an existing Payment only when that
\* Payment was created by the same requester for the same appointment or the
\* same operation.
C32_ExistingPaymentOfSameBooking ==
    [][\A r \in Requests :
        pc[r] = "idle" /\ pc'[r] = "done" =>
        \A u \in Patients, b \in BookingRefs, amount \in Amounts :
            /\ OrderPrecheck(u, b[1], b[2], amount) = "ok"
            /\ create_razorpay_order_lookup(r, u, b[1], b[2], amount)
            => \E first \in {resp'[r][2]} :
                /\ payments[first].user_id = u
                /\ payments[first].appointment_id = b[1]
                /\ payments[first].operation_id = b[2]]_vars

\* C33: table payment_webhooks holds at most one row per provider event id,
\* whatever deliveries were handled.
C33_OneWebhookRowPerEvent ==
    \A i, j \in DOMAIN payment_webhooks :
        payment_webhooks[i].webhook_id = payment_webhooks[j].webhook_id => i = j

\* C34: a delivery whose signature header is the HMAC of the raw body passes the
\* second check, which process_webhook_event makes over the re-serialized JSON:
\* it is never answered with 'Invalid webhook signature'.
C34_RawBodyDecidesAuthentication ==
    [][\A r \in Requests :
        pc[r] = "idle" /\ pc'[r] = "done" =>
        \A body \in GenuineBodies \cup TamperedBodies : \A sig \in Signatures(body) :
            /\ sig # NoSig
            /\ verify_webhook_signature(body, sig)
            /\ razorpay_webhook_receive(r, body, sig)
            => resp'[r] # "error Invalid webhook signature"]_vars

\* C35: with book and cancel requests handled one after another,
\* get_available_slots lists for (doctor, date) exactly the slots that have no
\* appointment other than cancelled ones; a booking request that passes the
\* other checks is accepted exactly when its slot is listed; and when an
\* appointment that was not yet cancelled is cancelled, its slot is listed and
\* so can be booked again.
C35_AvailableIffBookable ==
    [][\A r \in Requests :
        /\ pc[r] = "slots_select" /\ pc'[r] = "done" =>
            \E listed \in {resp'[r][2]} :
                \A slot \in valid_slots :
                    slot \in listed
                        <=> ExistingAppointments(req[r].doctor_id, req[r].date, slot) = {}
        /\ pc[r] = "idle" /\ pc'[r] # "idle" =>
           /\ \A u \in Patients, d \in DoctorInputs, date \in DateInputs, slot \in TimeSlotInputs :
               /\ BookingPrecheck(d, date, slot, {"approved"}) = "ok"
                       /\ book_appointment_check(r, u, d, date, slot)
                   => (pc'[r] = "book_insert" <=> slot \in available_slots(d, date))
               /\ BookingPrecheck(d, date, slot, {"approved", "ACTIVE"}) = "ok"
                       /\ process_booking_check(r, u, d, date, slot)
                   => (pc'[r] = "pb_insert" <=> slot \in available_slots(d, date))
           /\ \A a \in DOMAIN appointments, u \in UserIds :
               /\ appointments[a].status # "cancelled"
               /\ \/ cancel_appointment(r, a, u)
                  \/ \E role \in Roles :
                        AppointmentService_update_status(r, a, u, role, "cancel")
               => \E row \in {appointments[a]} :
                   /\ row.time_slot \in available_slots(row.doctor_id, row.date)'
                   /\ ExistingAppointments(row.doctor_id, row.date, row.time_slot)' = {}]_vars

\* an appointment was booked, cancelled, and its slot booked again
C35_Witness ==
    \E a, b \in DOMAIN appointments :
        /\ a < b
        /\ appointments[a].status = "cancelled"
        /\ appointments[b].status # "cancelled"
        /\ appointments[a].doctor_id = appointments[b].doctor_id
        /\ appointments[a].date = appointments[b].date
        /\ appointments[a].time_slot = appointments[b].time_slot
        /\ appointments[b].time_slot \notin available_slots(appointments[b].doctor_id,
                                                            appointments[b].date)

\* the hospitals that registration has inserted
RegisteredHospitals == {h \in DOMAIN hospitals : h > 12}

\* C36: a COMPLETED Payment backs at most one hospital, a later registration
\* request that presents it being rejected: only a COMPLETED Payment gets a
\* request to the INSERT and no step changes a Payment's status, so the
\* registered hospitals never outnumber the COMPLETED Payments.
C36_OneHospitalPerPayment ==
    Cardinality(RegisteredHospitals)
        <= Cardinality({p \in DOMAIN payments : payments[p].status = "COMPLETED"})

\* the mobile server's bookings: table, row, hospital, date and time
MobileBookings ==
    {<<"appointments", i, appointments[i].hospital_id, appointments[i].appointment_date,
       appointments[i].appointment_time>> : i \in DOMAIN appointments}
    \cup {<<"operations", i, operations[i].hospital_id, operations[i].operation_date,
            operations[i].operation_time>> : i \in DOMAIN operations}

\* C37: in the mobile server no two appointment or operation rows of one
\* hospital and date have times less than 30 minutes apart, whatever the
\* interleaving of the booking requests.
C37_NoBookingsWithinThirtyMinutes ==
    \A x, y \in MobileBookings :
        x[3] = y[3] /\ x[4] = y[4] /\ time_diff(x[5], y[5]) < 30
        => x = y

====
